---- MODULE Spec2Model ----
(***************************************************************************)
(* A state-machine model of the echovault voice front end:                 *)
(*   - AudioRecorder.record_with_vad   (src/src/audio/recorder.py)         *)
(*   - AudioRecorder.record_until_enter with its capture thread            *)
(*   - OpenWakeWordDetector.listen     (src/src/wakeword/oww_wakeword.py)  *)
(*   - run_push_to_talk / run_always_listening (src/src/main.py)           *)
(*   - EventBus.on / EventBus.emit     (src/src/ui/event_bus.py)           *)
(*                                                                         *)
(* Times are integers in milliseconds (the source holds them as float      *)
(* seconds: 1.0 is 1000, 5.0 is 5000, 30.0 is 30000).  A frame is          *)
(* identified by its position in the reads of one capture (1, 2, ...).     *)
(* An exception is modelled by the variable exc and by the position pc     *)
(* moving to the handler the Python runtime would pick.                    *)
(***************************************************************************)
EXTENDS Integers, Sequences, FiniteSets, TLC

VARIABLES
    mode,               \* which entry point runs: main.py:227-230, or a harness
    config,             \* the loaded configuration values the run uses
    script,             \* which frame feed the harness plays
    pc,                 \* position of the control (main) thread
    exc,                \* the exception being propagated, or "none"
    interrupted,        \* history: a KeyboardInterrupt has been raised
    stream,             \* state of each input stream: "none", "open", "closed"
    pa,                 \* state of each PyAudio instance: "up", "terminated"
    status,             \* last status published with status_changed
    event,              \* name of the last event emitted on the bus
    audio,              \* value returned by the last record_* call
    vad_args,           \* arguments of the running record_with_vad call
    vad,                \* locals of record_with_vad (recorder.py:83-88)
    hist,               \* history: what each read of this capture returned
    rue_frames,         \* record_until_enter: frames (recorder.py:32)
    rue_stop,           \* record_until_enter: stop_event (recorder.py:33)
    rue_joined,         \* history: thread.join has returned (recorder.py:49)
    rue_late,           \* history: frames appended since stop_event was set
    tpc,                \* position of the capture thread (recorder.py:35-41)
    stop_event,         \* OpenWakeWordDetector._stop_event
    model_state,        \* state of the wake-word classifier
    cumulative_silence, \* on_wake_word: cumulative_silence (main.py:132)
    silence_before,     \* history: cumulative_silence before the last update
    empty_run,          \* history: consecutive empty listening iterations
    text,               \* text returned by the last stt.transcribe
    llm_history,        \* ClaudeLLM._history, as its number of messages
    listeners,          \* EventBus._listeners: event name -> list of handlers
    lock,               \* EventBus._lock: the thread holding it, or "free"
    bus,                \* per thread: its position in on / emit and its locals
    on_log,             \* history: per event, the handlers in order of on()
    stop_called,        \* history: OpenWakeWordDetector.stop() has been called
    reads_after_stop    \* history: frames read and scored since that call

envVars == <<mode, config, script>>

excVars == <<exc, interrupted>>

vadVars == <<vad_args, vad, hist>>

rueVars == <<rue_frames, rue_stop, rue_joined, rue_late, tpc>>

gateVars == <<stop_event, model_state>>

convVars == <<cumulative_silence, silence_before, empty_run, text, llm_history>>

busVars == <<listeners, lock, bus, on_log>>

stopVars == <<stop_called, reads_after_stop>>

vars == <<envVars, busVars, stopVars, pc, excVars, stream, pa, status, event, audio, vadVars, rueVars,
          gateVars, convVars>>

----------------------------------------------------------------------------
\* Configuration values and bounds

\* AudioConfig.sample_rate
sample_rate == 16000

\* run_always_listening: listen_window and idle_limit (5.0 s and 30.0 s)
listen_window == 5000

idle_limit == 30000

\* OpenWakeWordConfig.threshold (0.5), in tenths, and the scores a frame may get
threshold == 5

Scores == {4, 5, 6}

\* Most reads of one capture in a free (nondeterministic) feed
MaxReads == 7

\* Most reads of one capture when the controller runs it
MaxLiveReads == 4

\* Most frames the capture thread of record_until_enter appends in one call
MaxChunks == 2

\* Configurations the controller runs with: VADConfig.silence_timeout,
\* VADConfig.frame_duration_ms, ClaudeConfig.max_history_pairs.  Frames are
\* coarse so that the 5 s wait window is 2 frames.
ControllerConfigs ==
    [silence_timeout : {1000, 5000}, frame_duration_ms : {2500},
     max_history_pairs : {1}]

NoConfig == [silence_timeout |-> 0, frame_duration_ms |-> 1, max_history_pairs |-> 0]

Texts == {"", "hello"}

\* EventBus harness: threads, event names, handlers; the handlers in
\* Resubscribing call on() for the event being delivered, with themselves
Threads == {"t1", "t2"}

Events == {"status_changed", "user_message"}

Handlers == {"h1", "h2", "h3"}

\* the event each handler is written for and registered on
HandlersOf(e) == IF e = "status_changed" THEN {"h1", "h2"} ELSE {"h3"}

\* the handlers that call on() for the event being delivered, with themselves
Resubscribing == {"h2"}

\* the handlers that call emit(status_changed) from inside their invocation
Reemitting == {"h3"}

\* Most handlers the harness registers for one event
MaxListeners == 3

\* Most frames the gate harness lets the gate score after a stop() call
MaxStoppedReads == 3

\* Frame feeds: "free" (harness) and "live" (controller) draw every read,
\* the others are fixed (A: 5 speech frames then 40 silent ones; B: 200
\* silent frames).
FeedLen(s) ==
    CASE s = "A" -> 5 + 40
      [] s = "B" -> 200
      [] s = "live" -> MaxLiveReads
      [] OTHER   -> MaxReads

\* Arguments the harness calls record_with_vad with
\* (silence_timeout, frame_duration_ms, listen_timeout), times in ms.
HarnessArgs ==
    [silence_timeout : {20, 60, 100}, frame_duration_ms : {30},
     listen_timeout : {0, 20, 100}]

ScenarioArgs ==
    [silence_timeout |-> 1000, frame_duration_ms |-> 30, listen_timeout |-> 5000]

NoArgs == [silence_timeout |-> 0, frame_duration_ms |-> 1, listen_timeout |-> 0]

----------------------------------------------------------------------------
\* AudioRecorder.record_with_vad: the pure parts

\* int(seconds * 1000 / frame_duration_ms): truncation of a non-negative value
FrameCount(timeout_ms, frame_duration_ms) == timeout_ms \div frame_duration_ms

MaxSilentFrames(a) == FrameCount(a.silence_timeout, a.frame_duration_ms)

\* (mutant of MaxWaitingFrames: a started frame counts as a whole one)
MaxWaitingFramesRoundedUp(a) ==
    IF a.listen_timeout > 0
    THEN FrameCount(a.listen_timeout + a.frame_duration_ms - 1, a.frame_duration_ms)
    ELSE 0

MaxWaitingFrames(a) ==
    IF a.listen_timeout > 0
    THEN FrameCount(a.listen_timeout, a.frame_duration_ms)
    ELSE 0

\* samples per frame, and bytes per frame (int16 = 2 bytes per sample)
FrameSize(a) == (sample_rate * a.frame_duration_ms) \div 1000

FrameBytes(a) == FrameSize(a) * 2

VadLocals(a) ==
    [frames |-> <<>>, speech_started |-> FALSE, silent_frames |-> 0,
     waiting_frames |-> 0,
     classified |-> 0,
     max_silent_frames |-> MaxSilentFrames(a),
     max_waiting_frames |-> MaxWaitingFrames(a),
     stop |-> FALSE]

\* (mutant of VadClassified: a speech frame does not reset silent_frames)
VadClassifiedNoReset(v, data, is_speech) ==
    IF is_speech
    THEN [v EXCEPT !.speech_started = TRUE,
                   !.frames = Append(v.frames, data)]
    ELSE IF v.speech_started
    THEN [v EXCEPT !.frames = Append(v.frames, data),
                   !.silent_frames = v.silent_frames + 1,
                   !.stop = (v.silent_frames + 1 >= v.max_silent_frames)]
    ELSE [v EXCEPT !.waiting_frames = v.waiting_frames + 1,
                   !.stop = (v.max_waiting_frames > 0
                             /\ v.waiting_frames + 1 >= v.max_waiting_frames)]

\* (mutant of VadClassified: silence before the onset is kept as well)
VadClassifiedLeadingKept(v, data, is_speech) ==
    IF is_speech
    THEN [v EXCEPT !.speech_started = TRUE,
                   !.silent_frames = 0,
                   !.frames = Append(v.frames, data)]
    ELSE IF v.speech_started
    THEN [v EXCEPT !.frames = Append(v.frames, data),
                   !.silent_frames = v.silent_frames + 1,
                   !.stop = (v.silent_frames + 1 >= v.max_silent_frames)]
    ELSE [v EXCEPT !.frames = Append(v.frames, data),
                   !.waiting_frames = v.waiting_frames + 1,
                   !.stop = (v.max_waiting_frames > 0
                             /\ v.waiting_frames + 1 >= v.max_waiting_frames)]

\* One pass of the loop body after a full frame `data` was read and
\* classified (recorder.py:100-116); stop is TRUE when the pass ends in break.
VadClassified(v, data, is_speech) ==
    IF is_speech
    THEN [v EXCEPT !.speech_started = TRUE,
                   !.silent_frames = 0,
                   !.frames = Append(v.frames, data)]
    ELSE IF v.speech_started
    THEN [v EXCEPT !.frames = Append(v.frames, data),
                   !.silent_frames = v.silent_frames + 1,
                   !.stop = (v.silent_frames + 1 >= v.max_silent_frames)]
    ELSE [v EXCEPT !.waiting_frames = v.waiting_frames + 1,
                   !.stop = (v.max_waiting_frames > 0
                             /\ v.waiting_frames + 1 >= v.max_waiting_frames)]

\* recorder.py:98: the frame is handed to the VAD (classified counts the
\* calls of is_speech), and the rest of the pass follows
VadIsSpeech(v, data, is_speech) ==
    VadClassified([v EXCEPT !.classified = v.classified + 1], data, is_speech)

\* (mutant of VadPass: the length of the read is not tested)
VadPassAnyLength(v, data, nbytes, frame_bytes, is_speech) ==
    VadIsSpeech(v, data, is_speech)

\* One pass of the loop body from the read on (recorder.py:94-116):
\* a read shorter than one frame is skipped.
VadPass(v, data, nbytes, frame_bytes, is_speech) ==
    IF nbytes < frame_bytes
    THEN v
    ELSE VadIsSpeech(v, data, is_speech)

\* What the feed gives at read number n: the set of (bytes read, is_speech)
Feed(s, n, frame_bytes) ==
    CASE s = "A" -> {<<frame_bytes, n <= 5>>}
      [] s = "B" -> {<<frame_bytes, FALSE>>}
      [] s = "live" -> {<<frame_bytes, TRUE>>, <<frame_bytes, FALSE>>}
      [] OTHER   -> {<<frame_bytes, TRUE>>, <<frame_bytes, FALSE>>,
                     <<frame_bytes - 2, FALSE>>}

Kind(nbytes, frame_bytes, is_speech) ==
    IF nbytes < frame_bytes THEN "short"
    ELSE IF is_speech THEN "speech" ELSE "silence"

----------------------------------------------------------------------------
\* Exceptions: where control goes when an exception is raised at pc

\* The caller of record_with_vad and where a return / a raise lands there
VadReturnPc == IF mode = "vad_harness" THEN "harness_done" ELSE "wg_after_record"

VadRaisePc == IF mode = "vad_harness" THEN "harness_raised" ELSE "listen_except"

\* The callback listen is given, and where its return / its raise lands
CallbackPc == IF mode = "gate_harness" THEN "cb_run" ELSE "wg_wake"

ListenReturnPc == IF mode = "gate_harness" THEN "gate_done" ELSE "al_finally"

ListenRaisePc == IF mode = "gate_harness" THEN "gate_raised" ELSE "al_except"

\* positions of on_wake_word (main.py:129-181), outside record_with_vad
WakeCallbackPcs ==
    {"wg_wake", "wg_listening", "wg_after_record", "wg_transcribe", "wg_stt",
     "wg_think", "wg_llm", "wg_speak", "wg_tts", "wg_reset", "wg_idle"}

\* positions of record_with_vad before its handlers
VadPcs == {"vad_open", "vad_init", "vad_read", "vad_result"}

\* positions of the try body of OpenWakeWordDetector.listen
ListenTryPcs == {"listen_check", "listen_read", "listen_reset", "listen_callback"}

\* positions of the try body of run_push_to_talk, record_until_enter included
PttTryPcs ==
    {"ptt_prompt", "rue_open", "rue_start", "rue_input", "rue_stop", "rue_join",
     "rue_close", "rue_result", "ptt_after_record", "ptt_transcribe", "ptt_stt",
     "ptt_think", "ptt_llm", "ptt_speak", "ptt_tts"}

\* the handler an exception raised at position p reaches first
HandlerOf(p) ==
    CASE p = "vad_read" -> "vad_except"
      [] p \in {"vad_open", "vad_init", "vad_result"} -> VadRaisePc
      [] p \in WakeCallbackPcs \cup ListenTryPcs \cup {"cb_run"} -> "listen_except"
      [] p \in {"listen_clear", "listen_open", "listen_log"} -> ListenRaisePc
      [] p \in PttTryPcs -> "ptt_except"
      [] OTHER -> "crashed"

Interruptible ==
    VadPcs \cup WakeCallbackPcs \cup ListenTryPcs \cup PttTryPcs
      \cup {"listen_clear", "listen_open", "listen_log", "cb_run"}

\* A KeyboardInterrupt is delivered to the control thread
Interrupt ==
    /\ pc \in Interruptible
    /\ exc = "none"
    /\ exc' = "KeyboardInterrupt"
    /\ interrupted' = TRUE
    /\ pc' = HandlerOf(pc)
    /\ UNCHANGED <<envVars, busVars, stopVars, stream, pa, status, event, audio, vadVars, rueVars, gateVars, convVars>>

----------------------------------------------------------------------------
\* AudioRecorder.record_with_vad: the steps

\* recorder.py:71-81: the input stream is opened
VadOpen ==
    /\ pc = "vad_open"
    /\ stream' = [stream EXCEPT !["vad"] = "open"]
    /\ pc' = "vad_init"
    /\ UNCHANGED <<envVars, busVars, stopVars, excVars, pa, status, event, audio, vadVars, rueVars, gateVars, convVars>>

\* recorder.py:83-90: the locals are initialised
VadInit ==
    /\ pc = "vad_init"
    /\ vad' = VadLocals(vad_args)
    /\ hist' = <<>>
    /\ pc' = "vad_read"
    /\ UNCHANGED <<envVars, busVars, stopVars, excVars, stream, pa, status, event, audio, vad_args, rueVars, gateVars, convVars>>

\* recorder.py:93-116: one pass of the while loop
VadRead ==
    /\ pc = "vad_read"
    /\ Len(hist) < FeedLen(script)
    /\ \E r \in Feed(script, Len(hist) + 1, FrameBytes(vad_args)) :
         LET n == Len(hist) + 1
             v == VadPass(vad, n, r[1], FrameBytes(vad_args), r[2])
         IN /\ vad' = v
            /\ hist' = Append(hist, Kind(r[1], FrameBytes(vad_args), r[2]))
            /\ pc' = IF v.stop THEN "vad_finally" ELSE "vad_read"
    /\ UNCHANGED <<envVars, busVars, stopVars, excVars, stream, pa, status, event, audio, vad_args, rueVars, gateVars, convVars>>

\* recorder.py:94: stream.read raises OSError, which no clause catches
VadReadError ==
    /\ pc = "vad_read"
    /\ exc = "none"
    /\ exc' = "OSError"
    /\ pc' = "vad_except"
    /\ UNCHANGED <<envVars, busVars, stopVars, interrupted, stream, pa, status, event, audio, vadVars, rueVars, gateVars, convVars>>

\* (mutant of VadExcept: the handler lets the exception through)
VadExceptReraise ==
    /\ pc = "vad_except"
    /\ pc' = "vad_finally"
    /\ UNCHANGED <<envVars, busVars, stopVars, excVars, stream, pa, status, event, audio,
                   vadVars, rueVars, gateVars, convVars>>

\* recorder.py:117-118: except KeyboardInterrupt: pass
VadExcept ==
    /\ pc = "vad_except"
    /\ exc' = IF exc = "KeyboardInterrupt" THEN "none" ELSE exc
    /\ pc' = "vad_finally"
    /\ UNCHANGED <<envVars, busVars, stopVars, interrupted, stream, pa, status, event, audio, vadVars, rueVars, gateVars, convVars>>

\* recorder.py:119-121: finally: stop and close the stream
VadFinally ==
    /\ pc = "vad_finally"
    /\ stream' = [stream EXCEPT !["vad"] = "closed"]
    /\ pc' = IF exc = "none" THEN "vad_result" ELSE VadRaisePc
    /\ UNCHANGED <<envVars, busVars, stopVars, excVars, pa, status, event, audio, vadVars, rueVars, gateVars, convVars>>

\* recorder.py:123-129: the frames collected are returned, the locals die
VadReturn ==
    /\ pc = "vad_result"
    /\ audio' = vad.frames
    /\ vad' = VadLocals(NoArgs)
    /\ pc' = VadReturnPc
    /\ UNCHANGED <<envVars, busVars, stopVars, excVars, stream, pa, status, event, vad_args, hist,
                   rueVars, gateVars, convVars>>

----------------------------------------------------------------------------
\* EventBus (event_bus.py)

\* (mutant of Snapshot: the live list itself is iterated, not a copy)
SnapshotAlias(l) == [alias |-> TRUE, items |-> <<>>]

\* event_bus.py:21: callbacks = list(self._listeners.get(event, [])), a copy
Snapshot(l) == [alias |-> FALSE, items |-> l]

\* event_bus.py:17: self._listeners[event].append(callback)
Registered(l, h) == Append(l, h)

\* a thread outside on and emit: its stack of calls into the bus is empty
BusIdle == <<>>

\* the frame of a call of on(e, h)
OnFrame(e, h) ==
    [pc |-> "on_lock", ev |-> e, arg |-> h, nested |-> FALSE,
     snap |-> Snapshot(<<>>), idx |-> 1, invoked |-> <<>>, at_snapshot |-> <<>>]

\* the frame of a call of emit(e)
EmitFrame(e) ==
    [pc |-> "emit_lock", ev |-> e, arg |-> "h1", nested |-> FALSE,
     snap |-> Snapshot(<<>>), idx |-> 1, invoked |-> <<>>, at_snapshot |-> <<>>]

\* the innermost call of thread t into the bus (t is not idle)
Top(t) == bus[t][Len(bus[t])]

\* thread t's stack with its innermost frame replaced by f, followed by more
WithTop(t, f, more) == SubSeq(bus[t], 1, Len(bus[t]) - 1) \o <<f>> \o more

\* thread t's stack after its innermost call has returned
Popped(t) == SubSeq(bus[t], 1, Len(bus[t]) - 1)

\* whether the innermost call of t is at position p
At(t, p) == bus[t] # <<>> /\ Top(t).pc = p

\* event_bus.py:22: the list the for loop of the emit with frame f iterates
Callbacks(f) == IF f.snap.alias THEN listeners[f.ev] ELSE f.snap.items

ctlVars ==
    <<envVars, stopVars, pc, excVars, stream, pa, status, event, audio, vadVars,
      rueVars, gateVars, convVars>>

\* event_bus.py:15: on(event, callback) is called by a thread
BusOnCall(t) ==
    /\ bus[t] = BusIdle
    /\ \E e \in Events : \E h \in HandlersOf(e) :
         /\ Len(listeners[e]) < MaxListeners
         /\ bus' = [bus EXCEPT ![t] = <<OnFrame(e, h)>>]
    /\ UNCHANGED <<ctlVars, listeners, lock, on_log>>

\* event_bus.py:16: with self._lock, in on
BusOnAcquire(t) ==
    /\ At(t, "on_lock")
    /\ lock = "free"
    /\ lock' = t
    /\ bus' = [bus EXCEPT ![t] = WithTop(t, [Top(t) EXCEPT !.pc = "on_append"], <<>>)]
    /\ UNCHANGED <<ctlVars, listeners, on_log>>

\* event_bus.py:17: the callback is appended, the lock released, on returns
\* (into the handler that called it, if one did)
BusOnAppend(t) ==
    /\ At(t, "on_append")
    /\ listeners' = [listeners EXCEPT ![Top(t).ev] = Registered(@, Top(t).arg)]
    /\ on_log' = [on_log EXCEPT ![Top(t).ev] = Append(@, Top(t).arg)]
    /\ lock' = "free"
    /\ bus' = [bus EXCEPT ![t] = Popped(t)]
    /\ UNCHANGED ctlVars

\* event_bus.py:19: emit(event, data) is called by a thread
BusEmitCall(t) ==
    /\ bus[t] = BusIdle
    /\ \E e \in Events : bus' = [bus EXCEPT ![t] = <<EmitFrame(e)>>]
    /\ UNCHANGED <<ctlVars, listeners, lock, on_log>>

\* event_bus.py:20: with self._lock, in emit
BusEmitAcquire(t) ==
    /\ At(t, "emit_lock")
    /\ lock = "free"
    /\ lock' = t
    /\ bus' = [bus EXCEPT ![t] = WithTop(t, [Top(t) EXCEPT !.pc = "emit_copy"], <<>>)]
    /\ UNCHANGED <<ctlVars, listeners, on_log>>

\* (mutant of LockAfterSnapshot: the lock is kept through the deliveries)
LockKept(t) == t

\* event_bus.py:20-21: the with block of emit ends after the copy
LockAfterSnapshot(t) == "free"

\* event_bus.py:21: the handler list is copied and the lock released
BusEmitSnapshot(t) ==
    /\ At(t, "emit_copy")
    /\ bus' = [bus EXCEPT ![t] =
                 WithTop(t, [Top(t) EXCEPT !.pc = "deliver",
                                           !.snap = Snapshot(listeners[Top(t).ev]),
                                           !.at_snapshot = on_log[Top(t).ev]],
                         <<>>)]
    /\ lock' = LockAfterSnapshot(t)
    /\ UNCHANGED <<ctlVars, listeners, on_log>>

\* the call into the bus the handler cb makes when invoked for event e: a
\* handler of Resubscribing calls on(e, cb), a handler of Reemitting calls
\* emit(status_changed), any other handler makes none
HandlerCalls(cb, e) ==
    IF cb \in Resubscribing /\ Len(listeners[e]) < MaxListeners
    THEN <<OnFrame(e, cb)>>
    ELSE IF cb \in Reemitting THEN <<EmitFrame("status_changed")>> ELSE <<>>

\* event_bus.py:22-23: the next callback is invoked
BusDeliver(t) ==
    /\ At(t, "deliver")
    /\ Top(t).idx <= Len(Callbacks(Top(t)))
    /\ LET cb == Callbacks(Top(t))[Top(t).idx]
           calls == HandlerCalls(cb, Top(t).ev)
       IN bus' = [bus EXCEPT ![t] =
                    WithTop(t, [Top(t) EXCEPT !.invoked = Append(@, cb),
                                              !.idx = @ + 1,
                                              !.nested = (calls # <<>>)],
                            calls)]
    /\ UNCHANGED <<ctlVars, listeners, lock, on_log>>

\* event_bus.py:22: the for loop is exhausted, emit returns and its locals die
BusEmitReturn(t) ==
    /\ At(t, "deliver")
    /\ Top(t).idx > Len(Callbacks(Top(t)))
    /\ bus' = [bus EXCEPT ![t] = Popped(t)]
    /\ UNCHANGED <<ctlVars, listeners, lock, on_log>>

----------------------------------------------------------------------------
\* Collaborators

\* ClaudeLLM.respond up to the request: the user message is appended and the
\* history trimmed to max_history_pairs * 2 messages
HistoryAsked(h, max_history_pairs) ==
    IF h + 1 > max_history_pairs * 2 THEN max_history_pairs * 2 ELSE h + 1

\* ClaudeLLM.respond after the reply: the assistant message is appended
HistoryAnswered(h, max_history_pairs) == HistoryAsked(h, max_history_pairs) + 1

\* PyAudio.terminate closes the streams its instance opened and still holds
Terminated(st, names) ==
    [n \in DOMAIN st |-> IF n \in names /\ st[n] = "open" THEN "closed" ELSE st[n]]

\* stt.transcribe, llm.respond, tts.synthesize_stream or player.play_stream
\* raises; llm.respond has appended the user message by then
CollaboratorError ==
    /\ pc \in {"wg_stt", "wg_llm", "wg_tts", "ptt_stt", "ptt_llm", "ptt_tts"}
    /\ exc = "none"
    /\ exc' = "Exception"
    /\ llm_history' = IF pc \in {"wg_llm", "ptt_llm"}
                      THEN HistoryAsked(llm_history, config.max_history_pairs)
                      ELSE llm_history
    /\ pc' = HandlerOf(pc)
    /\ UNCHANGED <<envVars, busVars, stopVars, interrupted, stream, pa, status, event, audio, vadVars,
                   rueVars, gateVars, cumulative_silence, silence_before,
                   empty_run, text>>

----------------------------------------------------------------------------
\* OpenWakeWordDetector.listen

\* oww_wakeword.py:34: the stop signal is cleared
ListenClear ==
    /\ pc = "listen_clear"
    /\ stop_event' = FALSE
    /\ pc' = "listen_open"
    /\ UNCHANGED <<envVars, busVars, stopVars, excVars, stream, pa, status, event, audio, vadVars,
                   rueVars, model_state, convVars>>

\* oww_wakeword.py:36-42: the gate's input stream is opened
ListenOpen ==
    /\ pc = "listen_open"
    /\ stream' = [stream EXCEPT !["wake"] = "open"]
    /\ pc' = "listen_log"
    /\ UNCHANGED <<envVars, busVars, stopVars, excVars, pa, status, event, audio, vadVars, rueVars,
                   gateVars, convVars>>

\* oww_wakeword.py:44-46: the log line, then the try statement is entered
ListenLog ==
    /\ pc = "listen_log"
    /\ pc' = "listen_check"
    /\ UNCHANGED <<envVars, busVars, stopVars, excVars, stream, pa, status, event, audio, vadVars,
                   rueVars, gateVars, convVars>>

\* oww_wakeword.py:47: while not self._stop_event.is_set()
ListenCheck ==
    /\ pc = "listen_check"
    /\ pc' = IF stop_event THEN "listen_finally" ELSE "listen_read"
    /\ UNCHANGED <<envVars, busVars, stopVars, excVars, stream, pa, status, event, audio, vadVars,
                   rueVars, gateVars, convVars>>

\* whether a frame's prediction holds a score above the threshold
Detected(score) == score > threshold

\* oww_wakeword.py:48-55: a frame is read and scored by the classifier
ListenRead ==
    /\ pc = "listen_read"
    /\ reads_after_stop < MaxStoppedReads
    /\ \E score \in Scores :
         /\ model_state' = IF Detected(score) THEN "detected" ELSE "scored"
         /\ pc' = IF Detected(score) THEN "listen_reset" ELSE "listen_check"
    /\ reads_after_stop' = IF stop_called THEN reads_after_stop + 1
                           ELSE reads_after_stop
    /\ UNCHANGED <<envVars, busVars, stop_called, excVars, stream, pa, status, event, audio, vadVars,
                   rueVars, stop_event, convVars>>

\* oww_wakeword.py:48: stream.read raises OSError, which no clause catches
ListenReadError ==
    /\ pc = "listen_read"
    /\ exc = "none"
    /\ exc' = "OSError"
    /\ pc' = "listen_except"
    /\ UNCHANGED <<envVars, busVars, stopVars, interrupted, stream, pa, status, event, audio, vadVars,
                   rueVars, gateVars, convVars>>

\* (mutant of ListenReset: the classifier is not reset before the callback)
ListenResetSkipped ==
    /\ pc = "listen_reset"
    /\ pc' = "listen_callback"
    /\ UNCHANGED <<envVars, busVars, stopVars, excVars, stream, pa, status, event, audio, vadVars,
                   rueVars, gateVars, convVars>>

\* oww_wakeword.py:56: self._model.reset()
ListenReset ==
    /\ pc = "listen_reset"
    /\ model_state' = "fresh"
    /\ pc' = "listen_callback"
    /\ UNCHANGED <<envVars, busVars, stopVars, excVars, stream, pa, status, event, audio, vadVars,
                   rueVars, stop_event, convVars>>

\* oww_wakeword.py:57: callback() enters on_wake_word
ListenCallback ==
    /\ pc = "listen_callback"
    /\ pc' = CallbackPc
    /\ UNCHANGED <<envVars, busVars, stopVars, excVars, stream, pa, status, event, audio, vadVars,
                   rueVars, gateVars, convVars>>

\* oww_wakeword.py:59-60: except KeyboardInterrupt: pass
ListenExcept ==
    /\ pc = "listen_except"
    /\ exc' = IF exc = "KeyboardInterrupt" THEN "none" ELSE exc
    /\ pc' = "listen_finally"
    /\ UNCHANGED <<envVars, busVars, stopVars, interrupted, stream, pa, status, event, audio, vadVars,
                   rueVars, gateVars, convVars>>

\* oww_wakeword.py:61-63: finally: the gate's stream is stopped and closed
ListenFinally ==
    /\ pc = "listen_finally"
    /\ stream' = [stream EXCEPT !["wake"] = "closed"]
    /\ pc' = IF exc = "none" THEN ListenReturnPc ELSE ListenRaisePc
    /\ UNCHANGED <<envVars, busVars, stopVars, excVars, pa, status, event, audio, vadVars, rueVars,
                   gateVars, convVars>>

\* oww_wakeword.py:65-66: stop() is called, by a thread other than listen's
GateStop ==
    /\ pc \notin {"gate_done", "gate_raised"}
    /\ ~stop_called
    /\ stop_event' = TRUE
    /\ stop_called' = TRUE
    /\ UNCHANGED <<envVars, busVars, reads_after_stop, pc, excVars, stream, pa,
                   status, event, audio, vadVars, rueVars, model_state, convVars>>

\* oww_wakeword.py:51: self._model.predict raises, which no clause catches
PredictError ==
    /\ pc = "listen_read"
    /\ exc = "none"
    /\ exc' = "Exception"
    /\ pc' = "listen_except"
    /\ UNCHANGED <<envVars, busVars, stopVars, interrupted, stream, pa, status, event,
                   audio, vadVars, rueVars, gateVars, convVars>>

\* oww_wakeword.py:57-58: the callback returns, the for loop is left and the
\* while loop goes on
CbReturn ==
    /\ pc = "cb_run"
    /\ pc' = "listen_check"
    /\ UNCHANGED <<envVars, busVars, stopVars, excVars, stream, pa, status, event,
                   audio, vadVars, rueVars, gateVars, convVars>>

\* oww_wakeword.py:57: the callback raises
CbRaise ==
    /\ pc = "cb_run"
    /\ exc = "none"
    /\ exc' = "Exception"
    /\ pc' = "listen_except"
    /\ UNCHANGED <<envVars, busVars, stopVars, interrupted, stream, pa, status, event,
                   audio, vadVars, rueVars, gateVars, convVars>>

----------------------------------------------------------------------------
\* run_always_listening

\* main.py:130-132: status wake is published, cumulative_silence = 0.0
WgWake ==
    /\ pc = "wg_wake"
    /\ status' = "wake"
    /\ event' = "status_changed"
    /\ cumulative_silence' = 0
    /\ empty_run' = 0
    /\ pc' = "wg_listening"
    /\ UNCHANGED <<envVars, busVars, stopVars, excVars, stream, pa, audio, vadVars, rueVars, gateVars,
                   silence_before, text, llm_history>>

\* main.py:136-142: status listening is published, record_with_vad is called
WgListening ==
    /\ pc = "wg_listening"
    /\ status' = "listening"
    /\ event' = "status_changed"
    /\ vad_args' = [silence_timeout |-> config.silence_timeout,
                    frame_duration_ms |-> config.frame_duration_ms,
                    listen_timeout |-> listen_window]
    /\ pc' = "vad_open"
    /\ UNCHANGED <<envVars, busVars, stopVars, excVars, stream, pa, audio, vad, hist, rueVars,
                   gateVars, convVars>>

\* (mutant of SilenceAfterEmpty: half a window is added)
SilenceAfterEmptyHalf(c) == c + listen_window \div 2

\* main.py:144-152: the new cumulative silence after an empty utterance
SilenceAfterEmpty(c) == c + listen_window

\* (mutant of SilenceAfterSpeech: the counter is kept)
SilenceKept(c) == c

\* main.py:155: the new cumulative silence after a non-empty utterance
SilenceAfterSpeech(c) == 0

\* (mutant of IdleLimitReached: the limit has to be exceeded)
IdleLimitExceeded(c) == c > idle_limit

\* main.py:149: whether the idle limit is reached
IdleLimitReached(c) == c >= idle_limit

\* main.py:144-155: the result of the capture is looked at
WgAfterRecord ==
    /\ pc = "wg_after_record"
    /\ silence_before' = cumulative_silence
    /\ IF Len(audio) = 0
       THEN /\ cumulative_silence' = SilenceAfterEmpty(cumulative_silence)
            /\ empty_run' = empty_run + 1
            /\ pc' = IF IdleLimitReached(SilenceAfterEmpty(cumulative_silence))
                     THEN "wg_reset" ELSE "wg_listening"
       ELSE /\ cumulative_silence' = SilenceAfterSpeech(cumulative_silence)
            /\ empty_run' = 0
            /\ pc' = "wg_transcribe"
    /\ hist' = <<>>
    /\ UNCHANGED <<envVars, busVars, stopVars, excVars, stream, pa, status, event, audio, vad_args,
                   vad, rueVars, gateVars, text, llm_history>>

\* main.py:158: status transcribing is published
WgTranscribe ==
    /\ pc = "wg_transcribe"
    /\ status' = "transcribing"
    /\ event' = "status_changed"
    /\ pc' = "wg_stt"
    /\ UNCHANGED <<envVars, busVars, stopVars, excVars, stream, pa, audio, vadVars, rueVars, gateVars,
                   convVars>>

\* (mutant of WgStt: the text is not looked at)
WgSttUnchecked ==
    /\ pc = "wg_stt"
    /\ \E t \in Texts : text' = t
    /\ event' = "user_message"
    /\ pc' = "wg_think"
    /\ UNCHANGED <<envVars, busVars, stopVars, excVars, stream, pa, status, audio,
                   vadVars, rueVars, gateVars, cumulative_silence, silence_before,
                   empty_run, llm_history>>

\* main.py:159-164: stt.transcribe returns; empty text goes back to listening
WgStt ==
    /\ pc = "wg_stt"
    /\ \E t \in Texts :
         /\ text' = t
         /\ IF t = ""
            THEN pc' = "wg_listening" /\ event' = event
            ELSE pc' = "wg_think" /\ event' = "user_message"
    /\ UNCHANGED <<envVars, busVars, stopVars, excVars, stream, pa, status, audio, vadVars, rueVars,
                   gateVars, cumulative_silence, silence_before, empty_run,
                   llm_history>>

\* main.py:167: status thinking is published
WgThink ==
    /\ pc = "wg_think"
    /\ status' = "thinking"
    /\ event' = "status_changed"
    /\ pc' = "wg_llm"
    /\ UNCHANGED <<envVars, busVars, stopVars, excVars, stream, pa, audio, vadVars, rueVars, gateVars,
                   convVars>>

\* main.py:168-170: llm.respond returns
WgLlm ==
    /\ pc = "wg_llm"
    /\ llm_history' = HistoryAnswered(llm_history, config.max_history_pairs)
    /\ event' = "assistant_message"
    /\ pc' = "wg_speak"
    /\ UNCHANGED <<envVars, busVars, stopVars, excVars, stream, pa, status, audio, vadVars, rueVars,
                   gateVars, cumulative_silence, silence_before, empty_run, text>>

\* main.py:173: status speaking is published
WgSpeak ==
    /\ pc = "wg_speak"
    /\ status' = "speaking"
    /\ event' = "status_changed"
    /\ pc' = "wg_tts"
    /\ UNCHANGED <<envVars, busVars, stopVars, excVars, stream, pa, audio, vadVars, rueVars, gateVars,
                   convVars>>

\* main.py:174-175: the response is synthesized and played
WgTts ==
    /\ pc = "wg_tts"
    /\ pc' = "wg_listening"
    /\ UNCHANGED <<envVars, busVars, stopVars, excVars, stream, pa, status, event, audio, vadVars,
                   rueVars, gateVars, convVars>>

\* (mutant of WgReset: conversation_reset is published, the history is kept)
WgResetKept ==
    /\ pc = "wg_reset"
    /\ event' = "conversation_reset"
    /\ pc' = "wg_idle"
    /\ UNCHANGED <<envVars, busVars, stopVars, excVars, stream, pa, status, audio,
                   vadVars, rueVars, gateVars, convVars>>

\* main.py:178-179: the history is cleared, conversation_reset is published
WgReset ==
    /\ pc = "wg_reset"
    /\ llm_history' = 0
    /\ event' = "conversation_reset"
    /\ pc' = "wg_idle"
    /\ UNCHANGED <<envVars, busVars, stopVars, excVars, stream, pa, status, audio, vadVars, rueVars,
                   gateVars, cumulative_silence, silence_before, empty_run, text>>

\* (mutant of WgIdle: the callback returns without publishing idle)
WgIdleUnpublished ==
    /\ pc = "wg_idle"
    /\ pc' = "listen_check"
    /\ UNCHANGED <<envVars, busVars, stopVars, excVars, stream, pa, status, event, audio,
                   vadVars, rueVars, gateVars, convVars>>

\* main.py:180-181 and oww_wakeword.py:58: status idle is published, the
\* callback returns and the gate goes back to its loop
WgIdle ==
    /\ pc = "wg_idle"
    /\ status' = "idle"
    /\ event' = "status_changed"
    /\ pc' = "listen_check"
    /\ UNCHANGED <<envVars, busVars, stopVars, excVars, stream, pa, audio, vadVars, rueVars, gateVars,
                   convVars>>

\* main.py:185-186: except KeyboardInterrupt
AlExcept ==
    /\ pc = "al_except"
    /\ exc' = IF exc = "KeyboardInterrupt" THEN "none" ELSE exc
    /\ pc' = "al_finally"
    /\ UNCHANGED <<envVars, busVars, stopVars, interrupted, stream, pa, status, event, audio, vadVars,
                   rueVars, gateVars, convVars>>

\* main.py:187-189: finally: detector.close() and recorder.close()
AlFinally ==
    /\ pc = "al_finally"
    /\ stop_event' = TRUE
    /\ pa' = [p \in DOMAIN pa |-> "terminated"]
    /\ stream' = Terminated(stream, {"wake", "vad", "rue"})
    /\ pc' = IF exc = "none" THEN "done" ELSE "crashed"
    /\ UNCHANGED <<envVars, busVars, stopVars, excVars, status, event, audio, vadVars, rueVars,
                   model_state, convVars>>

----------------------------------------------------------------------------
\* AudioRecorder.record_until_enter

\* recorder.py:24-30: the input stream is opened
RueOpen ==
    /\ pc = "rue_open"
    /\ stream' = [stream EXCEPT !["rue"] = "open"]
    /\ pc' = "rue_start"
    /\ UNCHANGED <<envVars, busVars, stopVars, excVars, pa, status, event, audio, vadVars, rueVars,
                   gateVars, convVars>>

\* recorder.py:32-46: fresh frames and stop_event, the capture thread starts
RueStart ==
    /\ pc = "rue_start"
    /\ rue_frames' = <<>>
    /\ rue_stop' = FALSE
    /\ rue_joined' = FALSE
    /\ rue_late' = 0
    /\ tpc' = "check"
    /\ pc' = "rue_input"
    /\ UNCHANGED <<envVars, busVars, stopVars, excVars, stream, pa, status, event, audio, vadVars,
                   gateVars, convVars>>

\* recorder.py:47: input() returns, the user pressed Enter
RueInput ==
    /\ pc = "rue_input"
    /\ pc' = "rue_stop"
    /\ UNCHANGED <<envVars, busVars, stopVars, excVars, stream, pa, status, event, audio, vadVars,
                   rueVars, gateVars, convVars>>

\* recorder.py:48: stop_event.set()
RueStop ==
    /\ pc = "rue_stop"
    /\ rue_stop' = TRUE
    /\ pc' = "rue_join"
    /\ UNCHANGED <<envVars, busVars, stopVars, excVars, stream, pa, status, event, audio, vadVars,
                   rue_frames, rue_joined, rue_late, tpc, gateVars, convVars>>

\* recorder.py:49: thread.join(timeout=1.0) returns: the thread has ended, or
\* the second has passed with the thread still somewhere in its loop
RueJoin ==
    /\ pc = "rue_join"
    /\ tpc \in {"done", "check", "read", "append"}
    /\ rue_joined' = TRUE
    /\ pc' = "rue_close"
    /\ UNCHANGED <<envVars, busVars, stopVars, excVars, stream, pa, status, event, audio, vadVars,
                   rue_frames, rue_stop, rue_late, tpc, gateVars, convVars>>

\* recorder.py:51-52: the stream is stopped and closed
RueClose ==
    /\ pc = "rue_close"
    /\ stream' = [stream EXCEPT !["rue"] = "closed"]
    /\ pc' = "rue_result"
    /\ UNCHANGED <<envVars, busVars, stopVars, excVars, pa, status, event, audio, vadVars, rueVars,
                   gateVars, convVars>>

\* recorder.py:54-60: the frames appended so far are returned
RueResult ==
    /\ pc = "rue_result"
    /\ audio' = rue_frames
    /\ pc' = "ptt_after_record"
    /\ UNCHANGED <<envVars, busVars, stopVars, excVars, stream, pa, status, event, vadVars, rueVars,
                   gateVars, convVars>>

\* the process is alive, so its daemon thread may run
Alive == pc \notin {"done", "crashed"}

\* a capture loop that never looks at stop_event
ThreadCheckUnstopped ==
    /\ Alive
    /\ tpc = "check"
    /\ tpc' = "read"
    /\ UNCHANGED <<envVars, busVars, stopVars, pc, excVars, stream, pa, status, event, audio, vadVars,
                   rue_frames, rue_stop, rue_joined, rue_late, gateVars, convVars>>

\* recorder.py:36: while not stop_event.is_set()
ThreadCheck ==
    /\ Alive
    /\ tpc = "check"
    /\ tpc' = IF rue_stop THEN "done" ELSE "read"
    /\ UNCHANGED <<envVars, busVars, stopVars, pc, excVars, stream, pa, status, event, audio, vadVars,
                   rue_frames, rue_stop, rue_joined, rue_late, gateVars, convVars>>

\* recorder.py:38: a frame is read from the open stream
ThreadRead ==
    /\ Alive
    /\ tpc = "read"
    /\ stream["rue"] = "open"
    /\ Len(rue_frames) < MaxChunks
    /\ tpc' = "append"
    /\ UNCHANGED <<envVars, busVars, stopVars, pc, excVars, stream, pa, status, event,
                   audio, vadVars, rue_frames, rue_stop, rue_joined, rue_late,
                   gateVars, convVars>>

\* recorder.py:39: frames.append(data)
ThreadAppend ==
    /\ Alive
    /\ tpc = "append"
    /\ rue_frames' = Append(rue_frames, Len(rue_frames) + 1)
    /\ rue_late' = IF rue_stop THEN rue_late + 1 ELSE rue_late
    /\ tpc' = "check"
    /\ UNCHANGED <<envVars, busVars, stopVars, pc, excVars, stream, pa, status, event,
                   audio, vadVars, rue_stop, rue_joined, gateVars, convVars>>

\* recorder.py:38-41: the read raises OSError (a device failure, or the
\* stream was closed under the read) and the thread leaves its loop
ThreadReadError ==
    /\ Alive
    /\ tpc = "read"
    /\ tpc' = "done"
    /\ UNCHANGED <<envVars, busVars, stopVars, pc, excVars, stream, pa, status, event, audio, vadVars,
                   rue_frames, rue_stop, rue_joined, rue_late, gateVars, convVars>>

----------------------------------------------------------------------------
\* run_push_to_talk

\* main.py:59-71: the prompt is answered with quit, reset, or Enter
PttPrompt ==
    /\ pc = "ptt_prompt"
    /\ \E user_input \in {"quit", "reset", ""} :
         CASE user_input = "quit" ->
                /\ pc' = "ptt_finally"
                /\ UNCHANGED <<status, event, llm_history>>
           [] user_input = "reset" ->
                /\ llm_history' = 0
                /\ event' = "conversation_reset"
                /\ pc' = "ptt_prompt"
                /\ UNCHANGED status
           [] OTHER ->
                /\ status' = "recording"
                /\ event' = "status_changed"
                /\ pc' = "rue_open"
                /\ UNCHANGED llm_history
    /\ UNCHANGED <<envVars, busVars, stopVars, excVars, stream, pa, audio, vadVars, rueVars, gateVars,
                   cumulative_silence, silence_before, empty_run, text>>

\* (mutant of PttAfterRecord: the length of the recording is not looked at)
PttAfterRecordUnchecked ==
    /\ pc = "ptt_after_record"
    /\ pc' = "ptt_transcribe"
    /\ UNCHANGED <<envVars, busVars, stopVars, excVars, stream, pa, status, event, audio, vadVars,
                   rueVars, gateVars, convVars>>

\* main.py:73-76: nothing recorded: status idle, back to the prompt
PttAfterRecord ==
    /\ pc = "ptt_after_record"
    /\ IF Len(audio) = 0
       THEN status' = "idle" /\ event' = "status_changed" /\ pc' = "ptt_prompt"
       ELSE pc' = "ptt_transcribe" /\ UNCHANGED <<status, event>>
    /\ UNCHANGED <<envVars, busVars, stopVars, excVars, stream, pa, audio, vadVars, rueVars, gateVars,
                   convVars>>

\* main.py:79-80: status transcribing is published
PttTranscribe ==
    /\ pc = "ptt_transcribe"
    /\ status' = "transcribing"
    /\ event' = "status_changed"
    /\ pc' = "ptt_stt"
    /\ UNCHANGED <<envVars, busVars, stopVars, excVars, stream, pa, audio, vadVars, rueVars, gateVars,
                   convVars>>

\* main.py:81-87: stt.transcribe returns; empty text gives status idle
PttStt ==
    /\ pc = "ptt_stt"
    /\ \E t \in Texts :
         /\ text' = t
         /\ IF t = ""
            THEN /\ status' = "idle"
                 /\ event' = "status_changed"
                 /\ pc' = "ptt_prompt"
            ELSE /\ event' = "user_message"
                 /\ pc' = "ptt_think"
                 /\ UNCHANGED status
    /\ UNCHANGED <<envVars, busVars, stopVars, excVars, stream, pa, audio, vadVars, rueVars, gateVars,
                   cumulative_silence, silence_before, empty_run, llm_history>>

\* main.py:90-91: status thinking is published
PttThink ==
    /\ pc = "ptt_think"
    /\ status' = "thinking"
    /\ event' = "status_changed"
    /\ pc' = "ptt_llm"
    /\ UNCHANGED <<envVars, busVars, stopVars, excVars, stream, pa, audio, vadVars, rueVars, gateVars,
                   convVars>>

\* main.py:92-94: llm.respond returns
PttLlm ==
    /\ pc = "ptt_llm"
    /\ llm_history' = HistoryAnswered(llm_history, config.max_history_pairs)
    /\ event' = "assistant_message"
    /\ pc' = "ptt_speak"
    /\ UNCHANGED <<envVars, busVars, stopVars, excVars, stream, pa, status, audio, vadVars, rueVars,
                   gateVars, cumulative_silence, silence_before, empty_run, text>>

\* main.py:97-98: status speaking is published
PttSpeak ==
    /\ pc = "ptt_speak"
    /\ status' = "speaking"
    /\ event' = "status_changed"
    /\ pc' = "ptt_tts"
    /\ UNCHANGED <<envVars, busVars, stopVars, excVars, stream, pa, audio, vadVars, rueVars, gateVars,
                   convVars>>

\* (mutant of PttTts: idle is not published after the response was played)
PttTtsUnpublished ==
    /\ pc = "ptt_tts"
    /\ pc' = "ptt_prompt"
    /\ UNCHANGED <<envVars, busVars, stopVars, excVars, stream, pa, status, event, audio,
                   vadVars, rueVars, gateVars, convVars>>

\* main.py:99-101: the response is played, status idle is published
PttTts ==
    /\ pc = "ptt_tts"
    /\ status' = "idle"
    /\ event' = "status_changed"
    /\ pc' = "ptt_prompt"
    /\ UNCHANGED <<envVars, busVars, stopVars, excVars, stream, pa, audio, vadVars, rueVars, gateVars,
                   convVars>>

\* main.py:103-104: except KeyboardInterrupt
PttExcept ==
    /\ pc = "ptt_except"
    /\ exc' = IF exc = "KeyboardInterrupt" THEN "none" ELSE exc
    /\ pc' = "ptt_finally"
    /\ UNCHANGED <<envVars, busVars, stopVars, interrupted, stream, pa, status, event, audio, vadVars,
                   rueVars, gateVars, convVars>>

\* main.py:105-106: finally: recorder.close()
PttFinally ==
    /\ pc = "ptt_finally"
    /\ pa' = [pa EXCEPT !["recorder"] = "terminated"]
    /\ stream' = Terminated(stream, {"vad", "rue"})
    /\ pc' = IF exc = "none" THEN "done" ELSE "crashed"
    /\ UNCHANGED <<envVars, busVars, stopVars, excVars, status, event, audio, vadVars, rueVars,
                   gateVars, convVars>>

----------------------------------------------------------------------------
\* the part of the initial state every specification shares
InitIdle ==
    /\ exc = "none"
    /\ interrupted = FALSE
    /\ stream = [s \in {"vad", "wake", "rue"} |-> "none"]
    /\ pa = [p \in {"recorder", "detector"} |-> "up"]
    /\ audio = <<>>
    /\ vad_args = NoArgs
    /\ vad = VadLocals(NoArgs)
    /\ hist = <<>>
    /\ rue_frames = <<>>
    /\ rue_stop = FALSE
    /\ rue_joined = FALSE
    /\ rue_late = 0
    /\ tpc = "none"
    /\ stop_event = FALSE
    /\ model_state = "fresh"
    /\ cumulative_silence = 0
    /\ silence_before = 0
    /\ empty_run = 0
    /\ text = ""
    /\ llm_history = 0
    /\ listeners = [e \in Events |-> <<>>]
    /\ lock = "free"
    /\ bus = [t \in Threads |-> BusIdle]
    /\ on_log = [e \in Events |-> <<>>]
    /\ stop_called = FALSE
    /\ reads_after_stop = 0

----------------------------------------------------------------------------
\* The program: main() runs one of the two modes (main.py:227-230); the
\* initial state is the one after status idle was published (main.py:55, 124)

Init ==
    /\ mode \in {"push_to_talk", "always_listening"}
    /\ config \in ControllerConfigs
    /\ script = "live"
    /\ pc = IF mode = "push_to_talk" THEN "ptt_prompt" ELSE "listen_clear"
    /\ status = "idle"
    /\ event = "status_changed"
    /\ InitIdle

Next ==
    \/ Interrupt
    \/ CollaboratorError
    \/ VadOpen
    \/ VadInit
    \/ VadRead
    \/ VadReadError
    \/ VadExcept
    \/ VadFinally
    \/ VadReturn
    \/ ListenClear
    \/ ListenOpen
    \/ ListenLog
    \/ ListenCheck
    \/ ListenRead
    \/ ListenReadError
    \/ ListenReset
    \/ ListenCallback
    \/ ListenExcept
    \/ ListenFinally
    \/ WgWake
    \/ WgListening
    \/ WgAfterRecord
    \/ WgTranscribe
    \/ WgStt
    \/ WgThink
    \/ WgLlm
    \/ WgSpeak
    \/ WgTts
    \/ WgReset
    \/ WgIdle
    \/ AlExcept
    \/ AlFinally
    \/ RueOpen
    \/ RueStart
    \/ RueInput
    \/ RueStop
    \/ RueJoin
    \/ RueClose
    \/ RueResult
    \/ ThreadCheck
    \/ ThreadRead
    \/ ThreadAppend
    \/ ThreadReadError
    \/ PttPrompt
    \/ PttAfterRecord
    \/ PttTranscribe
    \/ PttStt
    \/ PttThink
    \/ PttLlm
    \/ PttSpeak
    \/ PttTts
    \/ PttExcept
    \/ PttFinally

Spec == Init /\ [][Next]_vars

----------------------------------------------------------------------------
\* Harness: record_with_vad called directly on a drawn configuration and feed

InitVad ==
    /\ mode = "vad_harness"
    /\ config = NoConfig
    /\ pc = "vad_call"
    /\ status = "none"
    /\ event = "none"
    /\ script \in {"free", "A", "B"}
    /\ InitIdle

\* the harness calls record_with_vad with drawn arguments
VadCall ==
    /\ pc = "vad_call"
    /\ \/ script = "free" /\ vad_args' \in HarnessArgs
       \/ script \in {"A", "B"} /\ vad_args' = ScenarioArgs
    /\ pc' = "vad_open"
    /\ UNCHANGED <<envVars, busVars, stopVars, excVars, stream, pa, status, event, audio, vad, hist,
                   rueVars, gateVars, convVars>>

NextVad ==
    \/ VadCall
    \/ VadOpen
    \/ VadInit
    \/ VadRead
    \/ VadReadError
    \/ VadExcept
    \/ VadFinally
    \/ VadReturn
    \/ Interrupt

SpecVad == InitVad /\ [][NextVad]_vars

----------------------------------------------------------------------------
\* Harness: one call of OpenWakeWordDetector.listen, stop() called at any time

InitGate ==
    /\ mode = "gate_harness"
    /\ config = NoConfig
    /\ script = "live"
    /\ pc = "gate_call"
    /\ status = "none"
    /\ event = "none"
    /\ InitIdle

\* oww_wakeword.py:32: listen(callback) is called
GateCall ==
    /\ pc = "gate_call"
    /\ pc' = "listen_clear"
    /\ UNCHANGED <<envVars, busVars, stopVars, excVars, stream, pa, status, event,
                   audio, vadVars, rueVars, gateVars, convVars>>

NextGate ==
    \/ GateCall
    \/ GateStop
    \/ ListenClear
    \/ ListenOpen
    \/ ListenLog
    \/ ListenCheck
    \/ ListenRead
    \/ ListenReadError
    \/ PredictError
    \/ ListenReset
    \/ ListenCallback
    \/ CbReturn
    \/ CbRaise
    \/ ListenExcept
    \/ ListenFinally
    \/ Interrupt

SpecGate == InitGate /\ [][NextGate]_vars

----------------------------------------------------------------------------
\* Harness: threads calling on and emit on one EventBus

InitBus ==
    /\ mode = "bus_harness"
    /\ config = NoConfig
    /\ script = "free"
    /\ pc = "bus_harness"
    /\ status = "none"
    /\ event = "none"
    /\ InitIdle

NextBus ==
    \/ \E t \in Threads : BusOnCall(t)
    \/ \E t \in Threads : BusOnAcquire(t)
    \/ \E t \in Threads : BusOnAppend(t)
    \/ \E t \in Threads : BusEmitCall(t)
    \/ \E t \in Threads : BusEmitAcquire(t)
    \/ \E t \in Threads : BusEmitSnapshot(t)
    \/ \E t \in Threads : BusDeliver(t)
    \/ \E t \in Threads : BusEmitReturn(t)

SpecBus == InitBus /\ [][NextBus]_vars

----------------------------------------------------------------------------
\* Properties of record_with_vad, stated on the history of reads

SilentCount(h) == Cardinality({i \in DOMAIN h : h[i] = "silence"})

NoSpeech(h) == \A i \in DOMAIN h : h[i] # "speech"

\* position of the first read classified as speech (0 when there is none)
FirstSpeech(h) ==
    IF NoSpeech(h) THEN 0
    ELSE CHOOSE i \in DOMAIN h :
           h[i] = "speech" /\ \A j \in 1..(i - 1) : h[j] # "speech"

\* the sequence <<a, a+1, ..., b>>
Range(a, b) == [i \in 1..(b - a + 1) |-> a + i - 1]

\* the capture ran to a normal return: no interrupt, no error
CleanReturn == pc = "harness_done" /\ ~interrupted /\ exc = "none"

InCapture == pc \in {"vad_read", "vad_finally", "vad_result", "harness_done"}

\* C1: with listen_timeout > 0 and no read ever classified as speech, the
\* capture returns an empty utterance right after the N-th full silent frame,
\* N = floor(listen_timeout / frame_duration_ms): it never reads on once N
\* silent frames were read, and it appends nothing (feed B: 166 of 200 read).
C1_EmptyAfterNthSilentFrame ==
    (InCapture /\ vad_args.listen_timeout > 0 /\ NoSpeech(hist)
       /\ ~interrupted /\ exc = "none")
    => LET N == vad_args.listen_timeout \div vad_args.frame_duration_ms
       IN /\ vad.frames = <<>>
          /\ SilentCount(hist) <= N
          /\ (pc = "vad_read" /\ SilentCount(hist) > 0 => SilentCount(hist) < N)
          /\ (pc = "harness_done" =>
                /\ audio = <<>>
                /\ SilentCount(hist) = N
                /\ hist[Len(hist)] = "silence")
          /\ (pc = "harness_done" /\ script = "B" =>
                Len(hist) = 166 /\ FeedLen(script) - Len(hist) = 34)

\* The claim as first stated for C2: frame k the first speech frame and
\* frames k+1..k+m silent, m = floor(silence_timeout / frame_duration_ms),
\* give exactly the frames k..k+m.
C2_Original ==
    CleanReturn /\ ~NoSpeech(hist)
    => LET m == vad_args.silence_timeout \div vad_args.frame_duration_ms
           k == FirstSpeech(hist)
       IN (k + m <= Len(hist)
           /\ \A i \in (k + 1)..(k + m) : hist[i] = "silence")
          => audio = Range(k, k + m)

\* C2 (amended): frame k the first speech frame and frames k+1..k+m silent,
\* where m is the silence-frame threshold
\* floor(silence_timeout / frame_duration_ms), or 1 when that is 0, give
\* exactly the frames k..k+m in order, and the capture stops at the m-th
\* trailing silent frame.  In general the capture stops only at m consecutive
\* silent frames: the utterance is every full frame from the first speech
\* frame on, its last m frames are silent and the one before is speech
\* (feed A: 5 + 33 = 38 frames).
C2_UtteranceThroughTrailingSilence ==
    CleanReturn /\ ~NoSpeech(hist)
    => LET fl == vad_args.silence_timeout \div vad_args.frame_duration_ms
           m == IF fl = 0 THEN 1 ELSE fl
           k == FirstSpeech(hist)
           n == Len(audio)
       IN /\ ((k + m <= Len(hist)
               /\ \A i \in (k + 1)..(k + m) : hist[i] = "silence")
              => audio = Range(k, k + m) /\ Len(hist) = k + m)
          /\ n >= m + 1
          /\ audio[1] = k
          /\ audio[n] = Len(hist)
          /\ \A i \in 1..(n - 1) : audio[i] < audio[i + 1]
          /\ \A j \in k..Len(hist) :
               hist[j] # "short" <=> \E i \in 1..n : audio[i] = j
          /\ \A i \in (n - m + 1)..n : hist[audio[i]] = "silence"
          /\ hist[audio[n - m]] = "speech"
          /\ (script = "A" => n = 38 /\ audio = Range(1, 5 + 33))

\* C2 witness: a capture returned whose speech frames were separated by a
\* silent frame (the counter was reset) and whose first speech frame was not
\* the first read.
C2_Witness ==
    /\ CleanReturn
    /\ vad_args.silence_timeout \div vad_args.frame_duration_ms = 2
    /\ hist = <<"silence", "speech", "silence", "speech", "silence", "silence">>
    /\ audio = Range(2, 6)

----------------------------------------------------------------------------
\* Properties of the controller

OpenInputs == {n \in DOMAIN stream : stream[n] = "open"}

\* positions at which an exception is being handled, or the run is over
HandlerPcs ==
    {"vad_except", "vad_finally", "listen_except", "listen_finally",
     "al_except", "al_finally", "ptt_except", "ptt_finally", "done", "crashed"}

\* C3: at every state of a run at most one input stream is open; the gate's
\* stream is not open while record_with_vad holds its own.
C3_AtMostOneInputStream == Cardinality(OpenInputs) <= 1

\* C5: a detection is followed by reset() before the callback is invoked and
\* before any other frame is scored: the classifier holds the state of a
\* detection only between the scoring and the reset (or while the run ends),
\* and it is freshly reset all through the callback.
C5_ResetBeforeCallbackAndNextFrame ==
    /\ model_state = "detected" => pc \in {"listen_reset"} \cup HandlerPcs
    /\ pc \in {"listen_callback"} \cup WakeCallbackPcs \cup VadPcs
         => model_state = "fresh"

\* C5 witness: the gate is about to score the first frame after a whole
\* conversation, on reset classifier state.
C5_Witness ==
    /\ pc = "listen_read"
    /\ model_state = "fresh"
    /\ stream["vad"] = "closed"
    /\ ~interrupted

\* positions of a turn after a non-empty capture, wake-gated mode
WakeTurnPcs == {"wg_transcribe", "wg_stt", "wg_think", "wg_llm", "wg_speak", "wg_tts"}

\* C6: a listening iteration with a non-empty result sets cumulative silence
\* to 0 whatever it was, so cumulative silence is always the wait window
\* times the number of consecutive empty iterations.
C6_SpeechResetsCumulativeSilence ==
    /\ pc \in WakeTurnPcs => cumulative_silence = 0
    /\ pc \in WakeCallbackPcs \cup VadPcs
         => cumulative_silence = empty_run * listen_window

\* C6 witness: a non-empty capture came after silence had accumulated.
C6_Witness ==
    /\ pc = "wg_transcribe"
    /\ silence_before >= 2 * listen_window
    /\ cumulative_silence = 0

\* C7: the conversation loop goes back to wake-waiting exactly when
\* cumulative silence has reached the idle limit, which with a 5 s window and
\* a 30 s limit is after the 6th consecutive empty iteration; inside the loop
\* (from the first listening iteration on) cumulative silence is below the
\* limit.
C7_LeavesAtIdleLimit ==
    /\ pc \in {"wg_reset", "wg_idle"}
         => /\ cumulative_silence >= idle_limit
            /\ empty_run = 6
    /\ pc \in (WakeCallbackPcs \ {"wg_wake", "wg_reset", "wg_idle"}) \cup VadPcs
         => cumulative_silence < idle_limit

\* C7 witness: six empty captures in a row, none of them cut by an interrupt.
C7_Witness ==
    /\ pc = "wg_reset"
    /\ empty_run = 6
    /\ ~interrupted

\* positions of a manual turn after a non-empty recording
PttTurnPcs ==
    {"ptt_transcribe", "ptt_stt", "ptt_think", "ptt_llm", "ptt_speak", "ptt_tts"}

\* C8: a recording of length 0 takes the controller straight back to the
\* prompt with status idle: no step of the turn (transcribe, respond, speak)
\* is reached with an empty recording, and the step the controller takes on
\* an empty recording, unless an interrupt cuts it, publishes idle and
\* returns to the prompt.
C8_EmptyRecordingSkipsTurn ==
    /\ [](pc \in PttTurnPcs => Len(audio) > 0)
    /\ [][(pc = "ptt_after_record" /\ Len(audio) = 0 /\ pc' # pc /\ exc' = "none")
            => (pc' = "ptt_prompt" /\ status' = "idle"
                /\ event' = "status_changed"
                /\ text' = text /\ llm_history' = llm_history)]_vars

\* C8 witness: the stop came before the capture thread appended a frame, and
\* the controller is back at the prompt with status idle.
C8_Witness ==
    /\ pc = "ptt_prompt"
    /\ status = "idle"
    /\ stream["rue"] = "closed"
    /\ rue_joined
    /\ rue_frames = <<>>
    /\ audio = <<>>
    /\ ~interrupted

\* positions of run_push_to_talk outside record_until_enter
PttControllerPcs ==
    {"ptt_prompt", "ptt_after_record", "ptt_except", "ptt_finally", "done", "crashed"}
      \cup PttTurnPcs

\* C9: whenever control is back in the controller, the stream of
\* record_until_enter is not open, and if a capture thread was started its
\* stop flag is set and it was joined.
C9_CaptureReleasedOnEveryExit ==
    (mode = "push_to_talk" /\ pc \in PttControllerPcs)
    => /\ stream["rue"] # "open"
       /\ (tpc # "none" => rue_stop /\ rue_joined)

\* C10: in wake-gated mode, once an interrupt was raised no listening
\* iteration starts, no frame is scored by the gate, and when the run is over
\* no input stream is open.
C10_InterruptStopsListenLoop ==
    /\ []((mode = "always_listening" /\ interrupted /\ pc \in {"done", "crashed"})
            => OpenInputs = {})
    /\ [][(mode = "always_listening" /\ interrupted)
            => /\ ~(pc = "wg_listening" /\ pc' = "vad_open")
               /\ ~(pc = "listen_read" /\ pc' \in {"listen_check", "listen_reset"})]_vars


----------------------------------------------------------------------------
\* EventBus properties

\* the frames of all calls into the bus that are under way
Frames == UNION {{bus[t][i] : i \in 1..Len(bus[t])} : t \in Threads}

\* the for loop of the emit with frame f has no callback left
EmitExhausted(f) == f.pc = "deliver" /\ f.idx > Len(Callbacks(f))

\* C4: the handlers an emit has invoked so far are, one for one and in order,
\* the first handlers registered with on() for that event at the moment the
\* emit copied the list; when its loop is exhausted they are all of them.  So
\* each is invoked once, in registration order, and a handler registered
\* during delivery (by the handler being invoked, or by another thread) is
\* not invoked by that emit.
C4_EmitInvokesSnapshotInOrder ==
    \A f \in Frames :
        /\ Len(f.invoked) <= Len(f.at_snapshot)
        /\ \A i \in 1..Len(f.invoked) : f.invoked[i] = f.at_snapshot[i]
        /\ EmitExhausted(f) => f.invoked = f.at_snapshot

\* scenario D: h1 and h2 registered on status_changed, h2 re-subscribed itself
\* while being invoked, and the emit is over having invoked both once
C4_Witness ==
    \E t \in Threads :
        /\ Len(bus[t]) = 1
        /\ EmitExhausted(Top(t))
        /\ Top(t).ev = "status_changed"
        /\ Top(t).nested
        /\ Top(t).invoked = <<"h1", "h2">>
        /\ listeners["status_changed"] = <<"h1", "h2", "h2">>


\* thread t is inside an emit that has copied the handler list and has not
\* returned yet
InDelivery(t) == \E i \in 1..Len(bus[t]) : bus[t][i].pc = "deliver"

\* C21: between an emit's snapshot and the end of its deliveries no other
\* thread is inside the locked section of on() or of another emit, about to
\* append to the handler list or to copy it.
C21_NoInterleavingDuringDelivery ==
    \A t \in Threads : \A u \in Threads \ {t} :
        InDelivery(t) => ~(At(u, "on_append") \/ At(u, "emit_copy"))

----------------------------------------------------------------------------
\* Properties: failures of the device and of the collaborators

\* positions outside OpenWakeWordDetector.listen, after it was left
AfterListenPcs == {"al_except", "al_finally", "done", "crashed"}

\* C11: a read error of the input device never leaves the capture function
\* in which it was raised: no OSError is in flight once control is back in
\* run_always_listening, and the run does not end on one.
C11_ReadErrorEndsCapture == ~(exc = "OSError" /\ pc \in AfterListenPcs)

\* C12: a failure raised by a collaborator (stt, llm, tts, player) never
\* terminates the controller loop: the run does not end on that exception.
C12_CollaboratorFailureEndsTurnOnly == ~(exc = "Exception" /\ pc = "crashed")


----------------------------------------------------------------------------
\* Properties of OpenWakeWordDetector

\* C13: once stop() has been called, the gate scores at most the one frame
\* whose read was already under way; whenever the call came, before listen
\* began or during the callback included.
C13_StopEndsListenAtNextFrame == reads_after_stop <= 1

\* C14: in every state after listen() has returned or raised, the stream it
\* opened is not open.
C14_StreamReleasedOnEveryExit ==
    pc \in {"gate_done", "gate_raised"} => stream["wake"] # "open"


----------------------------------------------------------------------------
\* Properties of record_with_vad under an interrupt

\* the reads of h whose frame the loop appended: every speech frame, and
\* every silent frame that came after a speech frame
RECURSIVE Appended(_, _)
Appended(h, n) ==
    IF n = 0 THEN <<>>
    ELSE IF h[n] = "speech"
              \/ (h[n] = "silence" /\ \E j \in 1..(n - 1) : h[j] = "speech")
         THEN Append(Appended(h, n - 1), n)
         ELSE Appended(h, n - 1)

\* C15: an interrupt raised in the capture loop goes to the loop's handler
\* with the locals as they were, and the finally clause never runs with it in
\* flight, so it does not reach the caller; a call that returns after an
\* interrupt has closed its stream and returns exactly the frames appended
\* up to then.
C15_InterruptReturnsCollectedFrames ==
    /\ [](pc = "vad_finally" => exc # "KeyboardInterrupt")
    /\ []((interrupted /\ pc = "harness_done")
            => /\ exc = "none"
               /\ stream["vad"] = "closed"
               /\ audio = Appended(hist, Len(hist)))
    /\ [][(pc = "vad_read" /\ ~interrupted /\ interrupted')
            => (pc' = "vad_except" /\ vad' = vad /\ hist' = hist)]_vars

\* C15 witness: the capture was cut by an interrupt right after a speech
\* frame, and the frames appended so far came back.
C15_Witness ==
    /\ interrupted
    /\ pc = "harness_done"
    /\ Len(hist) >= 2
    /\ hist[Len(hist)] = "speech"
    /\ Len(audio) >= 1


----------------------------------------------------------------------------
\* Properties of the published status

\* the status transitions of the table a manual turn may take
PttTable ==
    {<<"idle", "recording">>, <<"recording", "transcribing">>,
     <<"recording", "idle">>, <<"transcribing", "idle">>,
     <<"transcribing", "thinking">>, <<"thinking", "speaking">>,
     <<"speaking", "idle">>}

\* C16: in manual-turn mode every change of the published status is a
\* transition of the table, taken on the table's condition (recording to idle
\* only with nothing recorded, transcribing to idle only on empty text); the
\* controller is at its prompt only in idle; a reset command clears the
\* response history and leaves the status idle; wake and listening are never
\* published.
C16_ManualStatusFollowsTable ==
    /\ [](mode = "push_to_talk"
            => /\ status \notin {"wake", "listening"}
               /\ (pc = "ptt_prompt" => status = "idle"))
    /\ [][(mode = "push_to_talk" /\ status' # status)
            => /\ <<status, status'>> \in PttTable
               /\ (<<status, status'>> = <<"recording", "idle">> => Len(audio) = 0)
               /\ (<<status, status'>> = <<"recording", "transcribing">>
                     => Len(audio) > 0)
               /\ (<<status, status'>> = <<"transcribing", "idle">> => text' = "")
               /\ (<<status, status'>> = <<"transcribing", "thinking">>
                     => text # "")]_vars
    /\ [][(mode = "push_to_talk" /\ event' = "conversation_reset"
             /\ event # "conversation_reset")
            => (llm_history' = 0 /\ status' = "idle")]_vars

\* C16 witness: a whole turn was taken (the history holds its two messages),
\* the controller is back at its prompt in idle, no interrupt involved.
C16_Witness ==
    /\ mode = "push_to_talk"
    /\ pc = "ptt_prompt"
    /\ event = "status_changed"
    /\ status = "idle"
    /\ text = "hello"
    /\ llm_history = 2
    /\ ~interrupted

\* the status transitions of a wake-gated conversation
WakeTable ==
    {<<"idle", "wake">>, <<"wake", "listening">>,
     <<"listening", "transcribing">>, <<"transcribing", "listening">>,
     <<"transcribing", "thinking">>, <<"thinking", "speaking">>,
     <<"speaking", "listening">>, <<"listening", "idle">>}

\* C17: in wake-gated mode every change of the published status is one of
\* idle-wake-listening, listening-transcribing (only with a non-empty
\* utterance), transcribing-thinking-speaking-listening, transcribing-listening
\* and listening-idle; wake is published by the trigger only; idle is
\* published only with cumulative silence at the idle limit, right after
\* conversation_reset and with the history cleared; the gate scores a frame
\* only in status idle.
C17_WakeStatusFollowsCycle ==
    /\ [](mode = "always_listening" /\ pc = "listen_read" => status = "idle")
    /\ [][(mode = "always_listening" /\ status' # status)
            => /\ <<status, status'>> \in WakeTable
               /\ (status' = "wake" => pc = "wg_wake")
               /\ (status' = "transcribing" => Len(audio) > 0)
               /\ (status' = "idle"
                     => /\ cumulative_silence >= idle_limit
                        /\ event = "conversation_reset"
                        /\ llm_history = 0)]_vars

\* C17 witness: a conversation with a spoken turn was left through the idle
\* limit and the gate is about to score a frame again.
C17_Witness ==
    /\ mode = "always_listening"
    /\ pc = "listen_read"
    /\ status = "idle"
    /\ text = "hello"
    /\ empty_run = 6
    /\ llm_history = 0
    /\ ~interrupted


----------------------------------------------------------------------------
\* Properties of the session state

\* positions at which the controller is waiting for the wake phrase
WakeWaitingPcs ==
    {"listen_check", "listen_read", "listen_reset", "listen_callback", "wg_wake"}

\* C18: back in wake-waiting after a conversation (and before the first
\* one) the response history is empty, and the first listening iteration of
\* every conversation starts with cumulative silence 0 and an empty history.
C18_ConversationStartsClean ==
    mode = "always_listening"
    => /\ pc \in WakeWaitingPcs \cup {"wg_idle"} => llm_history = 0
       /\ (pc = "wg_listening" /\ status = "wake")
            => (cumulative_silence = 0 /\ llm_history = 0)

\* C18 witness: a second conversation begins, after one that had a spoken
\* turn (its text is still there) and was left through the idle limit.
C18_Witness ==
    /\ mode = "always_listening"
    /\ pc = "wg_listening"
    /\ status = "wake"
    /\ text = "hello"
    /\ silence_before = idle_limit - listen_window
    /\ cumulative_silence = 0
    /\ llm_history = 0

\* the idle limit rounded up to a whole number of wait windows
IdleLimitRoundedUp ==
    ((idle_limit + listen_window - 1) \div listen_window) * listen_window

\* C19: cumulative silence is a whole multiple of the wait window between 0
\* and the idle limit rounded up to such a multiple; it changes only when a
\* capture has returned, by plus one window on an empty utterance and to 0
\* on a non-empty one (and it is created as 0 at the trigger); the
\* transcribing, thinking and speaking steps leave it alone.
C19_SilenceInWholeWindows ==
    /\ [](mode = "always_listening"
            => /\ cumulative_silence % listen_window = 0
               /\ cumulative_silence >= 0
               /\ cumulative_silence <= IdleLimitRoundedUp)
    /\ [][(mode = "always_listening" /\ cumulative_silence' # cumulative_silence)
            => \/ pc = "wg_wake" /\ cumulative_silence' = 0
               \/ /\ pc = "wg_after_record"
                  /\ cumulative_silence' =
                       IF Len(audio) = 0 THEN cumulative_silence + listen_window
                       ELSE 0]_vars

\* C19 witness: three windows of silence have accumulated since a spoken turn.
C19_Witness ==
    /\ mode = "always_listening"
    /\ pc = "wg_listening"
    /\ text = "hello"
    /\ llm_history = 2
    /\ cumulative_silence = 3 * listen_window

\* positions of the response stage, in either mode
ResponsePcs ==
    {"ptt_think", "ptt_llm", "ptt_speak", "ptt_tts",
     "wg_think", "wg_llm", "wg_speak", "wg_tts"}

\* C20: the response stage is never reached with an empty text, and the step
\* on which stt.transcribe returns an empty text publishes no user_message,
\* leaves the history alone and goes back to waiting: to the prompt with
\* status idle in manual-turn mode, to the next listening iteration in
\* wake-gated mode.
C20_EmptyTextSkipsResponse ==
    /\ [](pc \in ResponsePcs => text # "")
    /\ [][(pc \in {"ptt_stt", "wg_stt"} /\ pc' # pc /\ exc' = "none" /\ text' = "")
            => /\ event' # "user_message"
               /\ llm_history' = llm_history
               /\ (pc = "ptt_stt" => (pc' = "ptt_prompt" /\ status' = "idle"))
               /\ (pc = "wg_stt" => pc' = "wg_listening")]_vars

\* C20 witness: a non-empty utterance was transcribed to nothing and the
\* conversation is at the head of its next listening iteration.
C20_Witness ==
    /\ mode = "always_listening"
    /\ pc = "wg_listening"
    /\ status = "transcribing"
    /\ Len(audio) > 0
    /\ text = ""
    /\ ~interrupted

----------------------------------------------------------------------------
\* record_until_enter: cooperative stop

\* the frames of the list are the reads 1, 2, ... in order
InReadOrder(fs) == \A i \in 1..Len(fs) : fs[i] = i

\* C22: once stop_event is set the capture thread appends at most the one
\* frame whose read was under way and, having seen the flag, starts no read;
\* the stream is stopped and closed only after the flag was set and join
\* returned (the thread ended, or the grace period passed); the value
\* returned is the list of frames appended by the time it is built, in the
\* order they were read.
C22_StopEndsCaptureAndReturnsFrames ==
    /\ [](rue_late <= 1)
    /\ [](InReadOrder(rue_frames))
    /\ [](pc \in {"rue_close", "rue_result"} => rue_stop /\ rue_joined)
    /\ [][(tpc = "check" /\ rue_stop /\ tpc' # tpc) => tpc' = "done"]_vars
    /\ [][(pc = "rue_result" /\ pc' = "ptt_after_record")
            => (audio' = rue_frames /\ stream["rue"] = "closed")]_vars

\* C22 witness: the stop found the thread in a read; that one frame was
\* appended, the thread ended, and the recording returned holds both frames.
C22_Witness ==
    /\ pc = "ptt_after_record"
    /\ rue_stop /\ rue_joined
    /\ tpc = "done"
    /\ rue_late = 1
    /\ stream["rue"] = "closed"
    /\ audio = <<1, 2>>
    /\ audio = rue_frames
    /\ ~interrupted

\* C22 as stated: the recording returned holds every frame the capture
\* thread appended.
C22_ReturnsEveryAppendedFrame ==
    (mode = "push_to_talk" /\ pc = "ptt_after_record" /\ rue_joined)
    => audio = rue_frames

----------------------------------------------------------------------------
\* record_with_vad: short reads

\* the reads of the capture that returned a full frame
FullReads == {i \in 1..Len(hist) : hist[i] # "short"}

\* C23: the pass that gets a short read changes no local of record_with_vad
\* (frames, silent_frames, waiting_frames, speech_started) and goes on to the
\* next read, and the VAD has been called exactly once per full frame read.
C23_ShortReadIsSkipped ==
    /\ [](pc = "vad_read" => vad.classified = Cardinality(FullReads))
    /\ [](pc = "vad_read" => Len(vad.frames) <= Cardinality(FullReads))
    /\ [][(pc = "vad_read" /\ hist' = Append(hist, "short"))
            => (vad' = vad /\ pc' = "vad_read")]_vars

\* C23 witness: a short read came between a speech frame and a silent one;
\* the utterance holds the two full frames only.
C23_Witness ==
    /\ pc = "vad_read"
    /\ hist = <<"speech", "short", "silence">>
    /\ vad.frames = <<1, 3>>
    /\ vad.silent_frames = 1
    /\ vad.classified = 2

----------------------------------------------------------------------------
\* EventBus: the lock and the handlers

\* thread t is inside a with self._lock block
InLockedBlock(t) == At(t, "on_append") \/ At(t, "emit_copy")

\* thread t is at a with self._lock statement and cannot enter it
Blocked(t) == (At(t, "on_lock") \/ At(t, "emit_lock")) /\ lock # "free"

\* C24: the lock is held only by a thread that is inside one of the two
\* with blocks, never by one that is invoking a handler or waiting for the
\* lock; so a thread that waits for the lock waits for another thread, and
\* that thread is not waiting itself and releases the lock at its next step.
C24_LockNeverHeldInHandler ==
    /\ \A t \in Threads : lock = t => InLockedBlock(t)
    /\ \A t \in Threads : At(t, "deliver") => lock # t
    /\ \A t \in Threads :
         Blocked(t) => /\ lock \in Threads \ {t}
                       /\ InLockedBlock(lock)
                       /\ ~Blocked(lock)

\* C24 witness: a handler invoked by emit has called on() and is inside its
\* with block, holding the lock, while a handler invoked by the other thread
\* is still running.
C24_Witness ==
    \E t \in Threads : \E u \in Threads \ {t} :
        /\ Len(bus[t]) = 2
        /\ bus[t][1].pc = "deliver"
        /\ At(t, "on_append")
        /\ lock = t
        /\ Len(bus[u]) = 2
        /\ bus[u][1].pc = "deliver"
        /\ Blocked(u)

----------------------------------------------------------------------------
\* record_with_vad: the onset of speech

\* C25: the frames collected, and any utterance returned (after an interrupt
\* too), are empty or begin with the first frame classified as speech; a
\* silent frame before the onset adds one to waiting_frames and changes
\* nothing else; once speech_started holds no pass changes waiting_frames;
\* and a pass that ends the capture before the onset ends it by the wait
\* limit, with no frame collected.
C25_UtteranceBeginsWithSpeech ==
    /\ [](pc \in {"vad_read", "vad_except", "vad_finally", "vad_result"}
            => /\ vad.speech_started <=> ~NoSpeech(hist)
               /\ vad.frames # <<>> <=> vad.speech_started
               /\ vad.frames # <<>> => vad.frames[1] = FirstSpeech(hist))
    /\ [](pc = "harness_done" /\ audio # <<>>
            => hist[audio[1]] = "speech" /\ audio[1] = FirstSpeech(hist))
    /\ [][(pc = "vad_read" /\ ~vad.speech_started
             /\ hist' = Append(hist, "silence"))
            => vad' = [vad EXCEPT !.waiting_frames = vad.waiting_frames + 1,
                                  !.classified = vad.classified + 1,
                                  !.stop = vad'.stop]]_vars
    /\ [][(pc = "vad_read" /\ vad.speech_started /\ pc' \in {"vad_read", "vad_finally"})
            => vad'.waiting_frames = vad.waiting_frames]_vars
    /\ [][(pc = "vad_read" /\ pc' = "vad_finally" /\ ~vad'.speech_started)
            => /\ vad'.frames = <<>>
               /\ vad.max_waiting_frames > 0
               /\ vad'.waiting_frames >= vad.max_waiting_frames]_vars
    /\ [][(pc = "vad_read" /\ pc' = "vad_finally" /\ vad'.speech_started)
            => /\ vad'.silent_frames >= vad.max_silent_frames
               /\ hist'[Len(hist')] = "silence"]_vars

\* C25 witness: with a wait limit of three frames, two silent frames came
\* before the onset; the utterance returned begins at the third read.
C25_Witness ==
    /\ CleanReturn
    /\ vad_args.listen_timeout \div vad_args.frame_duration_ms = 3
    /\ Len(hist) >= 4
    /\ hist[1] = "silence" /\ hist[2] = "silence" /\ hist[3] = "speech"
    /\ audio # <<>>
    /\ audio[1] = 3

----------------------------------------------------------------------------
\* record_with_vad: a wait limit shorter than one frame

\* listen_timeout is positive and shorter than one frame
SubFrameWait(a) == a.listen_timeout > 0 /\ a.listen_timeout < a.frame_duration_ms

====
